---- MODULE Spec2Model ----
(***************************************************************************)
(* Model of src/app.py: a Flask application that fuses a static GTFS       *)
(* timetable (loaded once into the global dictionary GTFS) with a GTFS-RT  *)
(* delay feed and, per request, produces the departure board of one stop   *)
(* (generate_schedule).                                                    *)
(*                                                                         *)
(* Representation of values                                                *)
(*   - a DataFrame is the set of its rows, a row is a record;              *)
(*   - a nullable cell is a sequence: << >> is NaN, <<v>> holds v;         *)
(*   - a stop_id is the sequence of its '_'-separated segments;            *)
(*   - an 'HH:MM:SS' string is the triple <<h, m, s>>;                     *)
(*   - the UI strings are records of ASCII tags, the Japanese text they    *)
(*     stand for is given beside each tag.                                 *)
(***************************************************************************)
EXTENDS Integers, Sequences, FiniteSets, TLC

VARIABLES
    GTFS,               \* the global dictionary GTFS (app.py:26): key -> table
    main_pc,            \* position of the module-level code (app.py:469-518)
    load_next,          \* load_gtfs_data: index of the next key it stores
    schedule_frame,     \* which DataFrame object df_stop_schedule names
    pc,                 \* position of the request inside generate_schedule
    stop_name,          \* argument of generate_schedule
    now_jst,            \* datetime.now(JST) read by the request (app.py:232)
    now_time_sec,       \* seconds since midnight derived from now_jst
    active_service_ids, \* result of get_current_service_ids
    df_stop_schedule,   \* rows of the target stop, columns added along the way
    attempt,            \* get_realtime_updates: attempts started so far
    fetch_log,          \* outcome of each attempt, in order
    df_rt_all,          \* records returned by get_realtime_updates
    df_rt_info_to_merge,\* per-trip delay and inferred stop (app.py:318)
    final_list          \* value returned by generate_schedule

vars == <<GTFS, main_pc, load_next, schedule_frame, pc, stop_name, now_jst, now_time_sec, active_service_ids,
          df_stop_schedule, attempt, fetch_log, df_rt_all,
          df_rt_info_to_merge, final_list>>

----------------------------------------------------------------------------
(* Bounds of the model *)

\* most records in one poll of the realtime feed
MaxFeedLen == 2
\* most rows of calendar.txt drawn when the calendar tables are enumerated
MaxCalendarRows == 2
\* most rows of calendar_dates.txt drawn when the calendar tables are enumerated
MaxExceptionRows == 3
\* largest |delay_sec| drawn when the classifier's inputs are enumerated
MaxAbsDelay == 200

(* Program constants *)

\* app.py:154
MAX_RETRIES == 3
\* app.py:438, the display window in seconds
CUTOFF_WINDOW == 1800

----------------------------------------------------------------------------
(* Nullable cells *)

NaN == << >>
Some(v) == <<v>>
isna(x) == x = << >>
notna(x) == x # << >>
Val(x) == x[1]

----------------------------------------------------------------------------
(* The static files under gtfs_data/ used by the pipeline specification.   *)
(* Trip T1 calls at "Main" at 08:00:00 as its stop 3, after "Elm St"       *)
(* (stop 2); it has no stop 1 and its stop 0 is a stop missing from        *)
(* stops.txt.  T2 ends at "Main" at 07:00:00.  T3 runs into the next day.  *)

stops_txt ==
    { [stop_id |-> <<"O", "01">>, stop_name |-> "Origin"],
      [stop_id |-> <<"E", "01">>, stop_name |-> "Elm St"],
      [stop_id |-> <<"M", "01">>, stop_name |-> "Main"],
      [stop_id |-> <<"M", "02">>, stop_name |-> "Main"],
      [stop_id |-> <<"Z">>,       stop_name |-> "Zoo"] }

\* a route_id is the sequence of its '_'-separated segments
routes_txt ==
    { [route_id |-> <<"A", "1">>], [route_id |-> <<"A", "2">>], [route_id |-> <<"N">>] }

trips_txt ==
    { [trip_id |-> "T1", route_id |-> <<"A", "1">>, service_id |-> "wk",  trip_headsign |-> "Downtown"],
      [trip_id |-> "T2", route_id |-> <<"A", "2">>, service_id |-> "wk",  trip_headsign |-> "Harbor"],
      [trip_id |-> "T3", route_id |-> <<"N">>,      service_id |-> "hol", trip_headsign |-> "Night"] }

stop_times_txt ==
    { [trip_id |-> "T1", stop_sequence |-> 0, stop_id |-> <<"Q", "01">>, departure_time |-> <<7, 40, 0>>],
      [trip_id |-> "T1", stop_sequence |-> 2, stop_id |-> <<"E", "01">>, departure_time |-> <<7, 50, 0>>],
      [trip_id |-> "T1", stop_sequence |-> 3, stop_id |-> <<"M", "01">>, departure_time |-> <<8, 0, 0>>],
      [trip_id |-> "T1", stop_sequence |-> 4, stop_id |-> <<"Z">>,       departure_time |-> <<8, 10, 0>>],
      [trip_id |-> "T2", stop_sequence |-> 1, stop_id |-> <<"E", "01">>, departure_time |-> <<6, 50, 0>>],
      [trip_id |-> "T2", stop_sequence |-> 2, stop_id |-> <<"M", "02">>, departure_time |-> <<7, 0, 0>>],
      [trip_id |-> "T3", stop_sequence |-> 0, stop_id |-> <<"O", "01">>, departure_time |-> <<23, 50, 0>>],
      [trip_id |-> "T3", stop_sequence |-> 1, stop_id |-> <<"M", "01">>, departure_time |-> <<24, 10, 0>>] }

DayNames == {"monday", "tuesday", "sunday"}

\* a calendar.txt row: service_id and one 0/1 flag per weekday column
CalRow(s, mon, tue, sun) ==
    [service_id |-> s,
     flags |-> [d \in DayNames |-> CASE d = "monday" -> mon
                                     [] d = "tuesday" -> tue
                                     [] OTHER -> sun]]

calendar_txt ==
    [columns |-> DayNames,
     rows |-> { CalRow("wk", 1, 1, 0), CalRow("hol", 0, 0, 1) }]

calendar_dates_txt ==
    { [service_id |-> "wk", date |-> "20240107", exception_type |-> 1],
      [service_id |-> "wk", date |-> "20240102", exception_type |-> 2] }

\* the calendar days a request can fall on
Dates ==
    { [date |-> "20240101", day_name |-> "monday"],
      [date |-> "20240102", day_name |-> "tuesday"],
      [date |-> "20240107", day_name |-> "sunday"] }

----------------------------------------------------------------------------
(* Helpers of the loader *)

\* extract_parent_id: stop_id.rsplit('_', 1)[0]
extract_parent_id(stop_id) ==
    IF Len(stop_id) > 1 THEN SubSeq(stop_id, 1, Len(stop_id) - 1) ELSE stop_id

\* extract_parent_route_id: route_id.split('_', 1)[0]
extract_parent_route_id(route_id) == route_id[1]

\* time_to_seconds: h * 3600 + m * 60 + s, hours of 24 and more allowed
time_to_seconds(time_str) ==
    time_str[1] * 3600 + time_str[2] * 60 + time_str[3]

SetMin(S) == CHOOSE x \in S : \A y \in S : x <= y
SetMax(S) == CHOOSE x \in S : \A y \in S : x >= y

\* df_st with the departure_sec column (app.py:59-61)
LoadStopTimes(st_txt) ==
    { [trip_id |-> r.trip_id, stop_sequence |-> r.stop_sequence,
       stop_id |-> r.stop_id, departure_time |-> r.departure_time,
       departure_sec |-> time_to_seconds(r.departure_time)] : r \in st_txt }

\* df_s with the parent_id column (app.py:68, 82)
LoadStops(s_txt) ==
    { [stop_id |-> r.stop_id, stop_name |-> r.stop_name,
       parent_id |-> extract_parent_id(r.stop_id)] : r \in s_txt }

\* parent_id_map: stop_name -> parent_id (app.py:84)
ParentIdMap(df_s) ==
    [n \in { r.stop_name : r \in df_s } |->
        (CHOOSE r \in df_s : r.stop_name = n).parent_id]

\* df_min_max_times: per trip the min and max departure_sec (app.py:107-108)
TripBoundaries(df_st) ==
    { [trip_id |-> t,
       dep_sec |-> SetMin({ r.departure_sec : r \in { q \in df_st : q.trip_id = t } }),
       arr_sec |-> SetMax({ r.departure_sec : r \in { q \in df_st : q.trip_id = t } })]
      : t \in { r.trip_id : r \in df_st } }

\* stop_id -> stop_name (app.py:121)
StopNameMap(df_s) ==
    [i \in { r.stop_id : r \in df_s } |->
        (CHOOSE r \in df_s : r.stop_id = i).stop_name]

\* route_stop_map (app.py:87-103): parent route -> the names of the stops its
\* trips call at (the list is sorted in the source; its order is not modelled)
RouteStopMap(df_st, df_t, df_r, df_s) ==
    LET pairs == { <<extract_parent_route_id(r.route_id), s.stop_name>> :
                     <<st, t, r, s>> \in
                        { q \in df_st \X df_t \X df_r \X df_s :
                            /\ q[1].trip_id = q[2].trip_id
                            /\ q[2].route_id = q[3].route_id
                            /\ q[1].stop_id = q[4].stop_id } }
    IN  [p \in { x[1] : x \in pairs } |-> { x[2] : x \in { y \in pairs : y[1] = p } }]

\* the order in which load_gtfs_data stores the tables in GTFS (app.py:111-121)
PublishOrder ==
    << "STOP_TIMES", "TRIPS", "STOPS", "CALENDAR", "CALENDAR_DATES", "PARENT_ID_MAP",
       "TRIP_BOUNDARIES", "ROUTE_STOP_MAP", "ROUTE_NAMES", "STOP_NAME_MAP" >>

\* the dictionary load_gtfs_data leaves in GTFS (app.py:111-121)
LoadedGTFS(st_txt, t_txt, s_txt, r_txt, c_txt, cd_txt) ==
    [STOP_TIMES      |-> LoadStopTimes(st_txt),
     TRIPS           |-> t_txt,
     STOPS           |-> LoadStops(s_txt),
     CALENDAR        |-> c_txt,
     CALENDAR_DATES  |-> cd_txt,
     PARENT_ID_MAP   |-> ParentIdMap(LoadStops(s_txt)),
     TRIP_BOUNDARIES |-> TripBoundaries(LoadStopTimes(st_txt)),
     ROUTE_STOP_MAP  |-> RouteStopMap(LoadStopTimes(st_txt), t_txt, r_txt, LoadStops(s_txt)),
     ROUTE_NAMES     |-> DOMAIN RouteStopMap(LoadStopTimes(st_txt), t_txt, r_txt, LoadStops(s_txt)),
     STOP_NAME_MAP   |-> StopNameMap(LoadStops(s_txt))]

FixtureGTFS ==
    LoadedGTFS(stop_times_txt, trips_txt, stops_txt, routes_txt, calendar_txt,
               calendar_dates_txt)

----------------------------------------------------------------------------
(* get_current_service_ids (app.py:130-149) *)

\* services whose flag in the weekday column is 1; none when the column is missing
WeeklyServices(calendar, day_name) ==
    IF day_name \in calendar.columns
    THEN { r.service_id : r \in { q \in calendar.rows : q.flags[day_name] = 1 } }
    ELSE {}

\* rows of calendar_dates for the date with the given exception_type
ExceptionServices(calendar_dates, today_date, type) ==
    { r.service_id : r \in { q \in calendar_dates :
                               q.date = today_date /\ q.exception_type = type } }

\* a resolver that applies the additions after the removals
get_current_service_ids_AddLast(gtfs, now) ==
    (WeeklyServices(gtfs.CALENDAR, now.day_name)
       \ ExceptionServices(gtfs.CALENDAR_DATES, now.date, 2))
    \cup ExceptionServices(gtfs.CALENDAR_DATES, now.date, 1)

get_current_service_ids(gtfs, now) ==
    (WeeklyServices(gtfs.CALENDAR, now.day_name)
       \cup ExceptionServices(gtfs.CALENDAR_DATES, now.date, 1))
    \ ExceptionServices(gtfs.CALENDAR_DATES, now.date, 2)

----------------------------------------------------------------------------
(* The request's inputs *)

\* wall-clock times of day (seconds since midnight) at which a request is made
NowValues ==
    { 0, 25200, 25201, 27000, 27001, 28680, 28800, 29000, 29001,
      30600, 30601, 32400, 86399 }

\* datetime.now(JST): a calendar day and a time of day
Clock ==
    { [date |-> d.date, day_name |-> d.day_name,
       hour |-> t \div 3600, minute |-> (t % 3600) \div 60, second |-> t % 60]
      : d \in Dates, t \in NowValues }

StopNames == {"Main", "Nowhere"}

\* a decoded stop_time_update carrying a departure delay (app.py:190-197);
\* rt_stop_id is dropped at app.py:282 and is not modelled
FeedTrips == {"T1", "T2"}
FeedSequences == {0, 1, 3}
FeedDelays == {0, 200, 2000}
FeedRecords ==
    [trip_id : FeedTrips, stop_sequence : FeedSequences, delay_sec : FeedDelays]

\* the contents a successful poll can decode
Feeds == { f \in SUBSET FeedRecords : Cardinality(f) <= MaxFeedLen }

----------------------------------------------------------------------------
(* Realtime matching, app.py:277-329 *)

TripsIn(df) == { r.trip_id : r \in df }

\* a selection that keeps the record with the greatest stop_sequence instead
MaxSeqRecords(df, t) ==
    { r \in df : r.trip_id = t
                 /\ \A q \in df : q.trip_id = t => r.stop_sequence >= q.stop_sequence }

\* the records of trip t with the least stop_sequence
MinSeqRecords(df, t) ==
    { r \in df : r.trip_id = t
                 /\ \A q \in df : q.trip_id = t => r.stop_sequence <= q.stop_sequence }

\* sort_values('stop_sequence').drop_duplicates(['trip_id'], keep='first'):
\* one record per trip, of least stop_sequence.  The sort is not stable, so
\* among records tied on the least sequence any one may come first.
IsFirstPerTrip(kept, df) ==
    /\ kept \subseteq df
    /\ \A t \in TripsIn(df) :
          /\ Cardinality({ r \in kept : r.trip_id = t }) = 1
          /\ { r \in kept : r.trip_id = t } \subseteq MinSeqRecords(df, t)

\* df_rt_next_stop (app.py:282-288)
RtNextStop(kept) ==
    { [trip_id |-> r.trip_id, next_stop_sequence |-> r.stop_sequence,
       delay_sec |-> r.delay_sec] : r \in kept }

\* an inference that takes the reported stop itself as the current stop
CurrentStopCandidates_SameSeq(n, stop_times) ==
    { s \in stop_times : s.trip_id = n.trip_id
                         /\ s.stop_sequence = n.next_stop_sequence
                         /\ s.stop_sequence >= 0 }

\* df_rt_current_stop (app.py:293-305): static rows of the trip whose
\* stop_sequence is next_stop_sequence - 1 and is >= 0
CurrentStopCandidates(n, stop_times) ==
    { s \in stop_times : s.trip_id = n.trip_id
                         /\ s.stop_sequence = n.next_stop_sequence - 1
                         /\ s.stop_sequence >= 0 }

\* df_rt_info_to_merge (app.py:308-322): the delay of the kept record, left
\* joined with the inferred stop (NaN when no static row qualifies)
RtInfoToMerge(rt_next, stop_times) ==
    { [trip_id |-> n.trip_id,
       delay_sec |-> n.delay_sec,
       now_stop_id |-> IF CurrentStopCandidates(n, stop_times) = {}
                       THEN NaN
                       ELSE Some((CHOOSE s \in CurrentStopCandidates(n, stop_times) : TRUE).stop_id)]
      : n \in rt_next }

\* format_now_stop (app.py:338-354)
\*   "-"            '-'
\*   "passed"       f"{base_name}を通過"
\*   "near"         f"{now_stop_id}付近"
\*   "near_origin"  '始点付近'
format_now_stop(delay_sec, now_stop_id, stop_name_map) ==
    IF isna(delay_sec) THEN [kind |-> "-", of |-> << >>]
    ELSE IF notna(now_stop_id) /\ Val(now_stop_id) \in DOMAIN stop_name_map
         THEN [kind |-> "passed", of |-> <<stop_name_map[Val(now_stop_id)]>>]
    ELSE IF notna(now_stop_id)
         THEN [kind |-> "near", of |-> Val(now_stop_id)]
    ELSE [kind |-> "near_origin", of |-> << >>]

\* a row of df_stop_schedule with the realtime columns attached
WithRealtime(row, delay_sec, now_stop_id, stop_name_map) ==
    [trip_id |-> row.trip_id, stop_sequence |-> row.stop_sequence,
     stop_id |-> row.stop_id, departure_time |-> row.departure_time,
     departure_sec |-> row.departure_sec, trip_headsign |-> row.trip_headsign,
     delay_sec |-> delay_sec, now_stop_id |-> now_stop_id,
     now_stop |-> format_now_stop(delay_sec, now_stop_id, stop_name_map)]

\* app.py:270-275: no realtime records at all
MergeNoRealtime(schedule) ==
    { WithRealtime(row, NaN, NaN, << >>) : row \in schedule }

\* app.py:325-356: left join of the schedule with df_rt_info_to_merge
MergeRealtime(schedule, rt_info, stop_name_map) ==
    { LET m == { i \in rt_info : i.trip_id = row.trip_id }
      IN  IF m = {}
          THEN WithRealtime(row, NaN, NaN, stop_name_map)
          ELSE WithRealtime(row, Some((CHOOSE i \in m : TRUE).delay_sec),
                            (CHOOSE i \in m : TRUE).now_stop_id, stop_name_map)
      : row \in schedule }

----------------------------------------------------------------------------
(* Status classification, app.py:359-433 *)

Abs(x) == IF x < 0 THEN -x ELSE x

\* a division that rounds toward minus infinity
FloorDiv60(x) == x \div 60

\* int(x / 60): the quotient truncated toward zero
TruncDiv60(x) == IF x >= 0 THEN x \div 60 ELSE -((-x) \div 60)

\* a rounding that drops the fraction instead of rounding up
FloorMinutes(x) == x \div 60

\* int(np.ceil(x / 60)) for an integer x
CeilMinutes(x) == -((-x) \div 60)

\* a label without minutes
Label(kind) == [kind |-> kind, min |-> 0]

\* format_delay_time (app.py:371-387)
\*   "no_info"  "運行情報なし"      "on_time"  "定刻"
\*   "late"     f"{min}分遅れ"      "early"    f"{min}分早着"
format_delay_time(delay_sec) ==
    IF isna(delay_sec) THEN Label("no_info")
    ELSE IF Abs(Val(delay_sec)) < 60 THEN Label("on_time")
    ELSE LET delay_min == TruncDiv60(Val(delay_sec))
         IN  IF delay_min > 0 THEN [kind |-> "late", min |-> delay_min]
             ELSE IF delay_min < 0 THEN [kind |-> "early", min |-> Abs(delay_min)]
             ELSE Label("on_time")

\* the status message: a text, the minutes it quotes (0 when it quotes none)
\* and the delay label it appends (Label("-") when it appends none)
Message(msg, remaining_min, delay_time) ==
    [msg |-> msg, remaining_min |-> remaining_min, delay_time |-> delay_time]

\* a comparison that still counts a visit predicted for this very second
PredictedAhead_Inclusive(judgetime_sec, now) == judgetime_sec >= now

\* a comparison written the wrong way round
PredictedAhead_Reversed(judgetime_sec, now) == judgetime_sec < now

\* app.py:400
PredictedAhead(judgetime_sec, now) == judgetime_sec > now

\* a test that takes the trip's first departure for its last
ServiceOver_FirstDeparture(row, now) == row.dep_sec < now

\* app.py:426
ServiceOver(row, now) == row.arr_sec < now

\* judge_status (app.py:391-430)
\*   "arriving_on_time"   f"あと{n}分で定刻到着見込み。"
\*   "arriving"           f"あと{n}分で到着見込み。({delay_time})"
\*   "passed_or_arrived"  "通過・到着済み"
\*   "not_started"        "運行開始前"
\*   "service_ended"      "運行終了"
\*   "passed_no_info"     "通過済み（情報なし）"
judge_status(row, now) ==
    IF notna(row.delay_sec)
    THEN IF PredictedAhead(row.judgetime_sec, now)
         THEN LET remaining_sec == row.judgetime_sec - now
                  ceiled == CeilMinutes(remaining_sec)
                  remaining_min == IF ceiled < 1 THEN 1 ELSE ceiled
              IN  IF row.delay_time = Label("on_time")
                  THEN Message("arriving_on_time", remaining_min, Label("-"))
                  ELSE Message("arriving", remaining_min, row.delay_time)
         ELSE Message("passed_or_arrived", 0, Label("-"))
    ELSE IF row.departure_sec > now THEN Message("not_started", 0, Label("-"))
    ELSE IF ServiceOver(row, now) THEN Message("service_ended", 0, Label("-"))
    ELSE Message("passed_no_info", 0, Label("-"))

\* a row with the boundary, prediction and label columns (app.py:359-389)
WithPrediction(row, boundaries) ==
    LET b == CHOOSE x \in boundaries : x.trip_id = row.trip_id
        judgetime_sec == row.departure_sec
                         + (IF isna(row.delay_sec) THEN 0 ELSE Val(row.delay_sec))
    IN  [trip_id |-> row.trip_id, stop_sequence |-> row.stop_sequence,
         stop_id |-> row.stop_id, departure_time |-> row.departure_time,
         departure_sec |-> row.departure_sec, trip_headsign |-> row.trip_headsign,
         delay_sec |-> row.delay_sec, now_stop_id |-> row.now_stop_id,
         now_stop |-> row.now_stop,
         dep_sec |-> b.dep_sec, arr_sec |-> b.arr_sec,
         judgetime_sec |-> judgetime_sec,
         delay_time |-> format_delay_time(row.delay_sec)]

\* a row with its status message (app.py:433)
WithInfo(row, now) ==
    [trip_id |-> row.trip_id, stop_sequence |-> row.stop_sequence,
     stop_id |-> row.stop_id, departure_time |-> row.departure_time,
     departure_sec |-> row.departure_sec, trip_headsign |-> row.trip_headsign,
     delay_sec |-> row.delay_sec, now_stop_id |-> row.now_stop_id,
     now_stop |-> row.now_stop,
     dep_sec |-> row.dep_sec, arr_sec |-> row.arr_sec,
     judgetime_sec |-> row.judgetime_sec, delay_time |-> row.delay_time,
     info |-> judge_status(row, now)]

\* the rows of the target stop with every derived column
Classified(schedule, boundaries, now) ==
    { WithInfo(WithPrediction(row, boundaries), now) : row \in schedule }

----------------------------------------------------------------------------
(* Result selection, app.py:437-465 *)

\* a window that leaves out the visit scheduled exactly 30 minutes ago
InWindow_Strict(row, now) == row.judgetime_sec > now - CUTOFF_WINDOW

\* app.py:438-442
InWindow(row, now) == row.judgetime_sec >= now - CUTOFF_WINDOW

\* the filter of app.py:441-445
Selected(row, now) ==
    \/ InWindow(row, now)
    \/ (notna(row.delay_sec) /\ row.info.msg # "passed_or_arrived")

\* the columns returned for a row (app.py:452-457)
Display(row) ==
    [departure_time |-> row.departure_time, trip_headsign |-> row.trip_headsign,
     now_stop |-> row.now_stop, info |-> row.info]

\* the orders sort_values(by='departure_sec') can leave the rows in
SortedOrders(rows) ==
    { f \in [1..Cardinality(rows) -> rows] :
        /\ \A i, j \in 1..Cardinality(rows) : i # j => f[i] # f[j]
        /\ \A i, j \in 1..Cardinality(rows) :
              i < j => f[i].departure_sec <= f[j].departure_sec }

----------------------------------------------------------------------------
(* Module-level code: load_gtfs_data, then the server *)

\* app.py:57-107: the six files are read and the tables built
LoadFiles ==
    /\ main_pc = "import"
    /\ main_pc' = "publish"
    /\ UNCHANGED <<GTFS, load_next, schedule_frame, pc, stop_name, now_jst, now_time_sec,
                   active_service_ids, df_stop_schedule, attempt, fetch_log, df_rt_all,
                   df_rt_info_to_merge, final_list>>

\* app.py:125-127: a file is missing; the error is caught, GTFS stays empty
LoadFilesMissing ==
    /\ main_pc = "import"
    /\ main_pc' = "serving"
    /\ UNCHANGED <<GTFS, load_next, schedule_frame, pc, stop_name, now_jst, now_time_sec,
                   active_service_ids, df_stop_schedule, attempt, fetch_log, df_rt_all,
                   df_rt_info_to_merge, final_list>>

\* app.py:57-107: any other error leaves load_gtfs_data and ends the import
LoadCrash ==
    /\ main_pc = "import"
    /\ main_pc' = "crashed"
    /\ UNCHANGED <<GTFS, load_next, schedule_frame, pc, stop_name, now_jst, now_time_sec,
                   active_service_ids, df_stop_schedule, attempt, fetch_log, df_rt_all,
                   df_rt_info_to_merge, final_list>>

\* GTFS[key] = value
SetItem(dict, key, value) ==
    [k \in DOMAIN dict \cup {key} |-> IF k = key THEN value ELSE dict[k]]

\* app.py:111-121: one assignment GTFS[key] = table; after the last one
\* load_gtfs_data returns and the module goes on to start the server
Publish ==
    /\ main_pc = "publish"
    /\ GTFS' = SetItem(GTFS, PublishOrder[load_next], FixtureGTFS[PublishOrder[load_next]])
    /\ load_next' = load_next + 1
    /\ main_pc' = IF load_next = Len(PublishOrder) THEN "serving" ELSE "publish"
    /\ UNCHANGED <<schedule_frame, pc, stop_name, now_jst, now_time_sec,
                   active_service_ids, df_stop_schedule, attempt, fetch_log, df_rt_all,
                   df_rt_info_to_merge, final_list>>

\* a server that takes requests while load_gtfs_data is still storing tables
Serving_WhileLoading == main_pc \in {"publish", "serving"}

\* app.py:474 and 517-518: requests are served once the module-level
\* load_gtfs_data() call has returned
Serving == main_pc = "serving"

----------------------------------------------------------------------------
(* generate_schedule, step by step *)

NoClock == [date |-> "", day_name |-> "", hour |-> 0, minute |-> 0, second |-> 0]

\* the request's own variables before it starts
RequestIdle ==
    /\ pc = "idle"
    /\ schedule_frame = "none"
    /\ stop_name = ""
    /\ now_jst = NoClock
    /\ now_time_sec = 0
    /\ active_service_ids = {}
    /\ df_stop_schedule = {}
    /\ attempt = 0
    /\ fetch_log = << >>
    /\ df_rt_all = {}
    /\ df_rt_info_to_merge = {}
    /\ final_list = << >>

\* app.py:26: GTFS = {} when the module starts
Init ==
    /\ GTFS = << >>
    /\ main_pc = "import"
    /\ load_next = 1
    /\ RequestIdle

\* GTFS[key] for each of the keys succeeds (no KeyError)
HasKeys(keys) == keys \subseteq DOMAIN GTFS

\* the time of day counted on from 24:00:00 in the small hours, as a
\* timetable's service day does
NowTimeSec_ServiceDay(now) ==
    now.hour * 3600 + now.minute * 60 + now.second
        + (IF now.hour < 4 THEN 86400 ELSE 0)

\* app.py:234: now_time_sec, from the wall clock's hour, minute and second
NowTimeSec(now) == now.hour * 3600 + now.minute * 60 + now.second

\* app.py:225-234: the request starts; 'if not GTFS: return []'
ReadClock(sn, now) ==
    /\ Serving
    /\ pc = "idle"
    /\ stop_name' = sn
    /\ IF DOMAIN GTFS = {}
       THEN /\ pc' = "done"
            /\ UNCHANGED <<now_jst, now_time_sec>>
       ELSE /\ pc' = "services"
            /\ now_jst' = now
            /\ now_time_sec' = NowTimeSec(now)
    /\ UNCHANGED <<GTFS, main_pc, load_next, schedule_frame, active_service_ids,
                   df_stop_schedule, attempt, fetch_log, df_rt_all,
                   df_rt_info_to_merge, final_list>>

\* app.py:237-240
ResolveServices ==
    /\ pc = "services"
    /\ IF ~HasKeys({"CALENDAR", "CALENDAR_DATES"})
       THEN pc' = "raised" /\ UNCHANGED active_service_ids
       ELSE /\ active_service_ids' = get_current_service_ids(GTFS, now_jst)
            /\ pc' = IF active_service_ids' = {} THEN "done" ELSE "schedule"
    /\ UNCHANGED <<GTFS, main_pc, load_next, schedule_frame, stop_name, now_jst,
                   now_time_sec, df_stop_schedule, attempt, fetch_log, df_rt_all,
                   df_rt_info_to_merge, final_list>>

\* app.py:243-250: the stop times of today's trips, with the headsign
DailySchedule(gtfs, services) ==
    { [trip_id |-> st.trip_id, stop_sequence |-> st.stop_sequence,
       stop_id |-> st.stop_id, departure_time |-> st.departure_time,
       departure_sec |-> st.departure_sec,
       trip_headsign |-> (CHOOSE t \in gtfs.TRIPS : t.trip_id = st.trip_id).trip_headsign]
      : st \in { r \in gtfs.STOP_TIMES :
                   \E t \in gtfs.TRIPS : t.trip_id = r.trip_id /\ t.service_id \in services } }

\* app.py:253-265: the rows at any boarding point of the named stop
StopSchedule(gtfs, services, sn) ==
    { r \in DailySchedule(gtfs, services) :
        \E s \in gtfs.STOPS : s.parent_id = gtfs.PARENT_ID_MAP[sn] /\ s.stop_id = r.stop_id }

\* a df_stop_schedule that is the published STOP_TIMES object itself
StopScheduleFrame_Published == "STOP_TIMES"

\* app.py:246-265: merge(), the boolean selection and .copy() each build a new
\* DataFrame, so df_stop_schedule is an object of the request's own
StopScheduleFrame == "own"

\* 'frame[column] = ...' on the frame the request holds: a frame of its own
\* leaves GTFS alone, a published frame gets the rows with the new columns
InPlaceWrite(frame, rows) ==
    IF frame \notin DOMAIN GTFS THEN GTFS
    ELSE [GTFS EXCEPT ![frame] =
            rows \cup { r \in @ : ~\E w \in rows : /\ w.trip_id = r.trip_id
                                                   /\ w.stop_sequence = r.stop_sequence }]

\* app.py:243-265
BuildStopSchedule ==
    /\ pc = "schedule"
    /\ IF ~HasKeys({"TRIPS", "STOP_TIMES", "PARENT_ID_MAP"})
       THEN pc' = "raised" /\ UNCHANGED <<df_stop_schedule, schedule_frame>>
       ELSE IF stop_name \notin DOMAIN GTFS.PARENT_ID_MAP
       THEN pc' = "done" /\ UNCHANGED <<df_stop_schedule, schedule_frame>>
       ELSE IF ~HasKeys({"STOPS"})
       THEN pc' = "raised" /\ UNCHANGED <<df_stop_schedule, schedule_frame>>
       ELSE /\ pc' = "fetch"
            /\ df_stop_schedule' = StopSchedule(GTFS, active_service_ids, stop_name)
            /\ schedule_frame' = StopScheduleFrame
    /\ UNCHANGED <<GTFS, main_pc, load_next, stop_name, now_jst, now_time_sec,
                   active_service_ids, attempt, fetch_log, df_rt_all,
                   df_rt_info_to_merge, final_list>>

\* a loop that allows one attempt too many
RetryAgain_OneMore(made) == made <= MAX_RETRIES

\* 'for attempt in range(MAX_RETRIES)' (app.py:172): another attempt follows
\* when fewer than MAX_RETRIES have been made
RetryAgain(made) == made < MAX_RETRIES

\* what an attempt can raise: urlopen fails or times out, or the payload
\* does not parse
FetchErrors == {"URLError", "timeout", "DecodeError"}

\* app.py:213 and 216: 'except urllib.error.URLError' and 'except Exception'
\* between them catch whatever the attempt raises
Caught(error) == error = "URLError" \/ error \in {"timeout", "DecodeError"}

\* app.py:213-222: the attempt raises; the error is caught, and after the
\* last attempt an empty DataFrame is returned
FetchFail(error) ==
    /\ pc = "fetch"
    /\ RetryAgain(attempt)
    /\ attempt' = attempt + 1
    /\ fetch_log' = Append(fetch_log, [ok |-> FALSE, records |-> {}])
    /\ IF ~Caught(error)
       THEN pc' = "raised" /\ UNCHANGED df_rt_all
       ELSE IF RetryAgain(attempt')
       THEN UNCHANGED <<pc, df_rt_all>>
       ELSE pc' = "merge" /\ df_rt_all' = {}
    /\ UNCHANGED <<GTFS, main_pc, load_next, schedule_frame, stop_name, now_jst,
                   now_time_sec, active_service_ids, df_stop_schedule,
                   df_rt_info_to_merge, final_list>>

\* app.py:174-211: the attempt succeeds and its decoded records are returned
FetchOk(feed) ==
    /\ pc = "fetch"
    /\ RetryAgain(attempt)
    /\ attempt' = attempt + 1
    /\ fetch_log' = Append(fetch_log, [ok |-> TRUE, records |-> feed])
    /\ pc' = "merge"
    /\ df_rt_all' = feed
    /\ UNCHANGED <<GTFS, main_pc, load_next, schedule_frame, stop_name, now_jst,
                   now_time_sec, active_service_ids, df_stop_schedule,
                   df_rt_info_to_merge, final_list>>

\* GTFS.get('STOP_NAME_MAP', {}) (app.py:332)
StopNameMapOrEmpty == IF HasKeys({"STOP_NAME_MAP"}) THEN GTFS.STOP_NAME_MAP ELSE << >>

\* app.py:270-356.  Without records the three realtime columns are assigned
\* on df_stop_schedule itself (272-274); with records df_stop_schedule becomes
\* the new frame merge() returns (325) and the columns are assigned on that.
MatchRealtime ==
    /\ pc = "merge"
    /\ IF df_rt_all = {}
       THEN /\ pc' = "classify"
            /\ df_stop_schedule' = MergeNoRealtime(df_stop_schedule)
            /\ GTFS' = InPlaceWrite(schedule_frame, df_stop_schedule')
            /\ UNCHANGED <<df_rt_info_to_merge, schedule_frame>>
       ELSE IF ~HasKeys({"STOP_TIMES"})
       THEN /\ pc' = "raised"
            /\ UNCHANGED <<GTFS, df_stop_schedule, df_rt_info_to_merge, schedule_frame>>
       ELSE /\ pc' = "classify"
            /\ \E kept \in SUBSET df_rt_all :
                  /\ IsFirstPerTrip(kept, df_rt_all)
                  /\ df_rt_info_to_merge' = RtInfoToMerge(RtNextStop(kept), GTFS.STOP_TIMES)
                  /\ df_stop_schedule' =
                        MergeRealtime(df_stop_schedule, df_rt_info_to_merge', StopNameMapOrEmpty)
            /\ schedule_frame' = "own"
            /\ UNCHANGED GTFS
    /\ UNCHANGED <<main_pc, load_next, stop_name, now_jst, now_time_sec,
                   active_service_ids, attempt, fetch_log, df_rt_all, final_list>>

\* app.py:359-465: df_stop_schedule becomes the new frame merge() returns
\* (359); the remaining columns are assigned on that frame
ClassifyAndSelect ==
    /\ pc = "classify"
    /\ IF ~HasKeys({"TRIP_BOUNDARIES"})
       THEN /\ pc' = "raised"
            /\ UNCHANGED <<df_stop_schedule, schedule_frame, final_list>>
       ELSE /\ pc' = "done"
            /\ schedule_frame' = "own"
            /\ df_stop_schedule' =
                  Classified(df_stop_schedule, GTFS.TRIP_BOUNDARIES, now_time_sec)
            /\ \E order \in SortedOrders({ r \in df_stop_schedule' :
                                             Selected(r, now_time_sec) }) :
                  final_list' = [i \in DOMAIN order |-> Display(order[i])]
    /\ UNCHANGED <<GTFS, main_pc, load_next, stop_name, now_jst, now_time_sec,
                   active_service_ids, attempt, fetch_log, df_rt_all,
                   df_rt_info_to_merge>>

\* the response is sent (the list, or an error page when the request raised);
\* the next request starts from scratch
NextRequest ==
    /\ pc \in {"done", "raised"}
    /\ pc' = "idle"
    /\ schedule_frame' = "none"
    /\ stop_name' = ""
    /\ now_jst' = NoClock
    /\ now_time_sec' = 0
    /\ active_service_ids' = {}
    /\ df_stop_schedule' = {}
    /\ attempt' = 0
    /\ fetch_log' = << >>
    /\ df_rt_all' = {}
    /\ df_rt_info_to_merge' = {}
    /\ final_list' = << >>
    /\ UNCHANGED <<GTFS, main_pc, load_next>>

Next ==
    \/ LoadFiles
    \/ LoadFilesMissing
    \/ LoadCrash
    \/ Publish
    \/ \E sn \in StopNames, now \in Clock : ReadClock(sn, now)
    \/ ResolveServices
    \/ BuildStopSchedule
    \/ \E error \in FetchErrors : FetchFail(error)
    \/ \E feed \in Feeds : FetchOk(feed)
    \/ MatchRealtime
    \/ ClassifyAndSelect
    \/ NextRequest

Spec == Init /\ [][Next]_vars

----------------------------------------------------------------------------
(* The service resolver over enumerated calendar tables: the request stands  *)
(* at app.py:237 and the two calendar tables range over small contents.      *)

CalendarServices == {"wk", "hol"}

CalendarRows ==
    { CalRow(s, mon, 0, sun) : s \in CalendarServices, mon \in {0, 1}, sun \in {0, 1} }

ExceptionRows ==
    [service_id : CalendarServices, date : {"20240101", "20240107"},
     exception_type : {1, 2}]

\* the clock of a request made on day d at t seconds past midnight
ClockAt(d, t) ==
    [date |-> d.date, day_name |-> d.day_name,
     hour |-> t \div 3600, minute |-> (t % 3600) \div 60, second |-> t % 60]

InitCalendar ==
    /\ \E rows \in SUBSET CalendarRows, cd \in SUBSET ExceptionRows,
          cols \in {DayNames, DayNames \ {"sunday"}} :
          /\ Cardinality(rows) <= MaxCalendarRows
          /\ Cardinality(cd) <= MaxExceptionRows
          /\ GTFS = [FixtureGTFS EXCEPT !.CALENDAR = [columns |-> cols, rows |-> rows],
                                        !.CALENDAR_DATES = cd]
    /\ main_pc = "serving"
    /\ load_next = Len(PublishOrder) + 1
    /\ schedule_frame = "none"
    /\ pc = "services"
    /\ stop_name = "Main"
    /\ now_jst \in { ClockAt(d, 28680) : d \in { x \in Dates : x.day_name # "tuesday" } }
    /\ now_time_sec = 28680
    /\ active_service_ids = {}
    /\ df_stop_schedule = {}
    /\ attempt = 0
    /\ fetch_log = << >>
    /\ df_rt_all = {}
    /\ df_rt_info_to_merge = {}
    /\ final_list = << >>

SpecCalendar == InitCalendar /\ [][ResolveServices]_vars

----------------------------------------------------------------------------
(* The classifier over enumerated delays: the request stands at app.py:359   *)
(* for the stop "Main" on the Monday, one trip of the stop has a realtime    *)
(* record (or none has) and its delay ranges over -MaxAbsDelay..MaxAbsDelay. *)

ClassifyNowValues ==
    { 25200, 25201, 27000, 27001, 28680, 28740, 28800, 28801, 29000, 30600, 30601, 32400 }

Monday == CHOOSE d \in Dates : d.day_name = "monday"

InitClassify ==
    /\ GTFS = FixtureGTFS
    /\ main_pc = "serving"
    /\ load_next = Len(PublishOrder) + 1
    /\ schedule_frame = "own"
    /\ pc = "classify"
    /\ stop_name = "Main"
    /\ now_time_sec \in ClassifyNowValues
    /\ now_jst = ClockAt(Monday, now_time_sec)
    /\ active_service_ids = get_current_service_ids(GTFS, now_jst)
    /\ attempt = 1
    /\ df_rt_all \in {{}} \cup
          { {[trip_id |-> t, stop_sequence |-> 3, delay_sec |-> d]} :
              t \in FeedTrips, d \in (-MaxAbsDelay)..MaxAbsDelay }
    /\ fetch_log = << [ok |-> TRUE, records |-> df_rt_all] >>
    /\ df_rt_info_to_merge = RtInfoToMerge(RtNextStop(df_rt_all), GTFS.STOP_TIMES)
    /\ df_stop_schedule =
          IF df_rt_all = {}
          THEN MergeNoRealtime(StopSchedule(GTFS, active_service_ids, stop_name))
          ELSE MergeRealtime(StopSchedule(GTFS, active_service_ids, stop_name),
                             df_rt_info_to_merge, GTFS.STOP_NAME_MAP)
    /\ final_list = << >>

SpecClassify == InitClassify /\ [][ClassifyAndSelect]_vars

----------------------------------------------------------------------------
(* The request pipeline on the Sunday, when trip T3 runs: its visit of the   *)
(* stop "Main" is timetabled at 24:10:00, i.e. 87000 seconds.  The server is *)
(* up with the fixture tables published; polls carry at most one record, of  *)
(* trip T3, with a delay that puts the prediction on either side of 86400.   *)

\* wall-clock times of day of the requests, the day's two ends included
OvernightNowValues == { 0, 600, 601, 28800, 85800, 86000, 86398, 86399 }

Sunday == CHOOSE d \in Dates : d.day_name = "sunday"

OvernightClock == { ClockAt(Sunday, t) : t \in OvernightNowValues }

\* delays of the T3 record: -601 predicts 86399, -600 predicts 86400
OvernightDelays == {-601, -600} \cup (-MaxAbsDelay)..MaxAbsDelay

OvernightFeeds ==
    {{}} \cup { {[trip_id |-> "T3", stop_sequence |-> 1, delay_sec |-> d]} :
                  d \in OvernightDelays }

InitOvernight ==
    /\ GTFS = FixtureGTFS
    /\ main_pc = "serving"
    /\ load_next = Len(PublishOrder) + 1
    /\ RequestIdle

NextOvernight ==
    \/ \E now \in OvernightClock : ReadClock("Main", now)
    \/ ResolveServices
    \/ BuildStopSchedule
    \/ FetchFail("timeout")
    \/ \E feed \in OvernightFeeds : FetchOk(feed)
    \/ MatchRealtime
    \/ ClassifyAndSelect
    \/ NextRequest

SpecOvernight == InitOvernight /\ [][NextOvernight]_vars

----------------------------------------------------------------------------
(* Vocabulary of the properties *)

\* the lifecycle state a status message stands for
LifecycleState(info) ==
    CASE info.msg \in {"arriving", "arriving_on_time"} -> "EnRoute"
      [] info.msg = "passed_or_arrived" -> "ArrivedOrPassed"
      [] info.msg = "not_started" -> "NotYetDeparted"
      [] info.msg = "service_ended" -> "ServiceEnded"
      [] info.msg = "passed_no_info" -> "PassedNoData"
      [] OTHER -> "none"

\* the request has classified its rows
IsClassified == pc = "done" /\ df_stop_schedule # {}

\* the trip has a record in the poll the request fetched
HasRealtime(trip_id) == \E r \in df_rt_all : r.trip_id = trip_id

\* the delay of the record the matcher kept for the trip, as the row carries it
RowDelay(row) == Val(row.delay_sec)

\* the last scheduled departure of the row's trip, from the published stop times
IsLastDeparture(row, t) ==
    /\ \E s \in GTFS.STOP_TIMES : s.trip_id = row.trip_id /\ s.departure_sec = t
    /\ \A s \in GTFS.STOP_TIMES : s.trip_id = row.trip_id => s.departure_sec <= t

\* the row is in the list the request returns
InFinalList(row) ==
    \E i \in DOMAIN final_list :
        /\ final_list[i].departure_time = row.departure_time
        /\ final_list[i].trip_headsign = row.trip_headsign

\* the times of day, later than now, at which the row may be classified again
LaterNows(row, now) ==
    { n \in NowValues \cup ClassifyNowValues
            \cup { row.departure_sec, row.departure_sec + 1, row.arr_sec,
                   row.arr_sec + 1, row.judgetime_sec, row.judgetime_sec + 1 } :
        n > now /\ n <= 86399 }

----------------------------------------------------------------------------
(* C1: every classified stop-visit gets exactly one lifecycle state: without *)
(* a realtime record for its trip, NotYetDeparted iff its scheduled          *)
(* departure is after now, else ServiceEnded iff the trip's last departure   *)
(* is before now, else PassedNoData; with a realtime record (a delay of 0    *)
(* included), EnRoute iff scheduled departure + delay is after now, else     *)
(* ArrivedOrPassed.                                                          *)
C1_StateOf(row) ==
    IF HasRealtime(row.trip_id)
    THEN /\ notna(row.delay_sec)
         /\ IF row.departure_sec + RowDelay(row) > now_time_sec
            THEN LifecycleState(row.info) = "EnRoute"
            ELSE LifecycleState(row.info) = "ArrivedOrPassed"
    ELSE IF row.departure_sec > now_time_sec
         THEN LifecycleState(row.info) = "NotYetDeparted"
         ELSE \A t \in { s.departure_sec : s \in GTFS.STOP_TIMES } :
                IsLastDeparture(row, t) =>
                    IF t < now_time_sec
                    THEN LifecycleState(row.info) = "ServiceEnded"
                    ELSE LifecycleState(row.info) = "PassedNoData"

C1_Classification ==
    IsClassified => \A row \in df_stop_schedule : C1_StateOf(row)

\* a trip whose last departure was 07:00:00, without realtime data, is
\* ServiceEnded at 09:00:00, while a trip without realtime data scheduled for
\* 08:00:00 is NotYetDeparted before 08:00:00, and a trip reported with a
\* delay of 0 counts as having realtime data
C1_Witness ==
    /\ IsClassified
    /\ now_time_sec = 28680
    /\ \E row \in df_stop_schedule :
          /\ ~HasRealtime(row.trip_id)
          /\ row.departure_sec = 28800
          /\ LifecycleState(row.info) = "NotYetDeparted"
    /\ \E row \in df_stop_schedule :
          /\ HasRealtime(row.trip_id)
          /\ row.delay_sec = Some(0)
          /\ LifecycleState(row.info) = "ArrivedOrPassed"

\* (C1, second witnessing state) the 07:00:00 trip at 09:00:00
C1_ServiceEndedReached ==
    /\ IsClassified
    /\ now_time_sec = 32400
    /\ \E row \in df_stop_schedule :
          /\ ~HasRealtime(row.trip_id)
          /\ IsLastDeparture(row, 25200)
          /\ LifecycleState(row.info) = "ServiceEnded"

----------------------------------------------------------------------------
(* C2, as claimed: ServiceEnded, ArrivedOrPassed and PassedNoData are        *)
(* terminal: a row classified in one of them is classified the same at       *)
(* every later time of the day, its delay unchanged.                         *)
C2_AllThreeTerminal ==
    IsClassified =>
        \A row \in df_stop_schedule :
            LifecycleState(row.info) \in {"ServiceEnded", "ArrivedOrPassed", "PassedNoData"}
            => \A n \in LaterNows(row, now_time_sec) :
                  LifecycleState(judge_status(row, n)) = LifecycleState(row.info)

(* C2, amended: ServiceEnded and ArrivedOrPassed are terminal; a row in      *)
(* PassedNoData stays there or moves to ServiceEnded (once now passes the    *)
(* trip's last departure) and to no other state.                             *)
C2_Terminal ==
    IsClassified =>
        \A row \in df_stop_schedule :
            \A n \in LaterNows(row, now_time_sec) :
                /\ LifecycleState(row.info) \in {"ServiceEnded", "ArrivedOrPassed"}
                   => LifecycleState(judge_status(row, n)) = LifecycleState(row.info)
                /\ LifecycleState(row.info) = "PassedNoData"
                   => /\ LifecycleState(judge_status(row, n)) \in {"PassedNoData", "ServiceEnded"}
                      /\ (n > row.arr_sec
                            => LifecycleState(judge_status(row, n)) = "ServiceEnded")

\* a row in PassedNoData with a later time of day past its trip's last departure
C2_Witness ==
    /\ IsClassified
    /\ \E row \in df_stop_schedule :
          /\ LifecycleState(row.info) = "PassedNoData"
          /\ \E n \in LaterNows(row, now_time_sec) : n > row.arr_sec
    /\ \E row \in df_stop_schedule :
          /\ LifecycleState(row.info) = "ArrivedOrPassed"
          /\ LaterNows(row, now_time_sec) # {}

----------------------------------------------------------------------------
(* C3, as claimed: a visit without realtime data scheduled exactly 30        *)
(* minutes before now is left out of the returned list, and a visit in       *)
(* EnRoute is in the list however old its scheduled time.                    *)
C3_ThirtyMinutesExcluded ==
    IsClassified =>
        \A row \in df_stop_schedule :
            /\ (~HasRealtime(row.trip_id) /\ row.departure_sec = now_time_sec - 1800)
               => ~InFinalList(row)
            /\ LifecycleState(row.info) = "EnRoute" => InFinalList(row)

(* C3, amended: a visit without realtime data is left out of the returned    *)
(* list iff it was scheduled more than 30 minutes before now; scheduled      *)
(* exactly 30 minutes before now it is still listed.  A visit in EnRoute is  *)
(* in the list however old its scheduled time.                               *)
C3_Filter ==
    IsClassified =>
        \A row \in df_stop_schedule :
            /\ ~HasRealtime(row.trip_id)
               => (InFinalList(row) <=> row.departure_sec >= now_time_sec - 1800)
            /\ LifecycleState(row.info) = "EnRoute" => InFinalList(row)

\* a listed visit without realtime data scheduled exactly 30 minutes ago, next
\* to an unlisted one scheduled earlier
C3_Witness ==
    /\ IsClassified
    /\ \E row \in df_stop_schedule :
          /\ ~HasRealtime(row.trip_id)
          /\ row.departure_sec = now_time_sec - 1800
          /\ InFinalList(row)
    /\ \E row \in df_stop_schedule :
          /\ ~HasRealtime(row.trip_id)
          /\ row.departure_sec < now_time_sec - 1800
          /\ ~InFinalList(row)

\* (C3, second witnessing state) a listed EnRoute visit scheduled more than
\* 30 minutes ago
C3_StaleEnRouteReached ==
    /\ IsClassified
    /\ \E row \in df_stop_schedule :
          /\ LifecycleState(row.info) = "EnRoute"
          /\ row.departure_sec < now_time_sec - 1800
          /\ InFinalList(row)

----------------------------------------------------------------------------
(* C4: the resolved set of services holds no service with a Removed          *)
(* exception (type 2) on the date, whatever its weekday flag and its Added   *)
(* exceptions (type 1), and holds every service that has the weekday flag    *)
(* set or an Added exception on the date and no Removed one.                 *)
C4_HasException(s, type) ==
    \E e \in GTFS.CALENDAR_DATES :
        e.service_id = s /\ e.date = now_jst.date /\ e.exception_type = type

C4_MatchesWeekday(s) ==
    /\ now_jst.day_name \in GTFS.CALENDAR.columns
    /\ \E c \in GTFS.CALENDAR.rows : c.service_id = s /\ c.flags[now_jst.day_name] = 1

C4_RemovalPrecedence ==
    pc \in {"schedule", "done"} =>
        \A s \in CalendarServices :
            /\ C4_HasException(s, 2) => s \notin active_service_ids
            /\ ((C4_MatchesWeekday(s) \/ C4_HasException(s, 1)) /\ ~C4_HasException(s, 2))
               => s \in active_service_ids

\* a service flagged for the weekday, Added and Removed on the same date is
\* resolved as inactive, beside an active one
C4_Witness ==
    /\ pc = "schedule"
    /\ \E s \in CalendarServices :
          /\ C4_MatchesWeekday(s)
          /\ C4_HasException(s, 1)
          /\ C4_HasException(s, 2)
          /\ s \notin active_service_ids
    /\ \E s \in CalendarServices :
          /\ ~C4_MatchesWeekday(s)
          /\ C4_HasException(s, 1)
          /\ s \in active_service_ids

----------------------------------------------------------------------------
(* C5: a trip with records in the poll gets, on every one of its             *)
(* stop-visits, the delay of a record of least sequence among its records    *)
(* and of no other record; a trip without records gets no delay (NaN, not    *)
(* 0).                                                                       *)
C5_LeastSequence(r) ==
    \A q \in df_rt_all : q.trip_id = r.trip_id => r.stop_sequence <= q.stop_sequence

C5_MinSequenceDelay ==
    pc \in {"classify", "done"} =>
        /\ \A row \in df_stop_schedule :
              IF HasRealtime(row.trip_id)
              THEN /\ notna(row.delay_sec)
                   /\ \E r \in df_rt_all :
                         /\ r.trip_id = row.trip_id
                         /\ C5_LeastSequence(r)
                         /\ RowDelay(row) = r.delay_sec
              ELSE isna(row.delay_sec)
        /\ \A t \in TripsIn(df_rt_all) :
              /\ Cardinality({ m \in df_rt_info_to_merge : m.trip_id = t }) = 1
              /\ \A m \in df_rt_info_to_merge :
                    m.trip_id = t =>
                        \E r \in df_rt_all :
                            r.trip_id = t /\ C5_LeastSequence(r) /\ m.delay_sec = r.delay_sec
        /\ TripsIn(df_rt_info_to_merge) = TripsIn(df_rt_all)

\* two records of one trip with different sequences and delays: the visit
\* carries the delay of the lower sequence, the other trip's visit none
C5_Witness ==
    /\ pc = "done"
    /\ \E r, q \in df_rt_all :
          /\ r.trip_id = q.trip_id
          /\ r.stop_sequence < q.stop_sequence
          /\ r.delay_sec # q.delay_sec
          /\ \E row \in df_stop_schedule :
                row.trip_id = r.trip_id /\ row.delay_sec = Some(r.delay_sec)
    /\ \E row \in df_stop_schedule : isna(row.delay_sec)

----------------------------------------------------------------------------
(* C6: for a trip whose least-sequence record has sequence N, the inferred   *)
(* current stop is the stop_id of the trip's static row of sequence N - 1    *)
(* when there is one and N - 1 >= 0, and is unknown otherwise; no stop is    *)
(* inferred for N = 0; the delay is present either way.                      *)
C6_CurrentStop ==
    pc \in {"classify", "done"} =>
        \A m \in df_rt_info_to_merge :
            \A r \in df_rt_all :
                (r.trip_id = m.trip_id /\ C5_LeastSequence(r)) =>
                    LET N == r.stop_sequence
                        before == { s \in GTFS.STOP_TIMES :
                                      s.trip_id = m.trip_id /\ s.stop_sequence = N - 1 }
                    IN  /\ (before # {} /\ N - 1 >= 0)
                           => \E s \in before : m.now_stop_id = Some(s.stop_id)
                        /\ (before = {} \/ N - 1 < 0) => isna(m.now_stop_id)
                        /\ N = 0 => isna(m.now_stop_id)
                        /\ \A row \in df_stop_schedule :
                              row.trip_id = m.trip_id =>
                                  /\ notna(row.delay_sec)
                                  /\ row.now_stop_id = m.now_stop_id
                                  /\ isna(m.now_stop_id) => row.now_stop.kind = "near_origin"

\* a record of sequence 0 (no stop inferred, the delay kept) beside a record
\* of sequence 3 whose trip has a static row of sequence 2
C6_Witness ==
    /\ pc = "done"
    /\ \E r \in df_rt_all, m \in df_rt_info_to_merge, row \in df_stop_schedule :
          /\ r.stop_sequence = 0
          /\ m.trip_id = r.trip_id
          /\ row.trip_id = r.trip_id
          /\ isna(m.now_stop_id)
          /\ row.delay_sec = Some(r.delay_sec)
    /\ \E r \in df_rt_all, m \in df_rt_info_to_merge :
          /\ r.stop_sequence = 3
          /\ m.trip_id = r.trip_id
          /\ m.now_stop_id = Some(<<"E", "01">>)

----------------------------------------------------------------------------
(* C7: the delay label is "on time" iff |delay_sec| < 60; otherwise it is    *)
(* "<m> late" for a positive and "<m> early" for a negative delay, m being   *)
(* |delay_sec| divided by 60 with the fraction dropped, so m >= 1; -59 is    *)
(* "on time", -60 is "1 early"; without a delay the label is "no             *)
(* information".                                                             *)
C7_LabelOf(row) ==
    IF isna(row.delay_sec) THEN row.delay_time = [kind |-> "no_info", min |-> 0]
    ELSE LET d == RowDelay(row)
             magnitude == IF d < 0 THEN 0 - d ELSE d
         IN  /\ row.delay_time.kind = "on_time" <=> magnitude < 60
             /\ magnitude >= 60 =>
                   /\ row.delay_time.kind = IF d > 0 THEN "late" ELSE "early"
                   /\ row.delay_time.min >= 1
                   /\ row.delay_time.min * 60 <= magnitude
                   /\ magnitude < (row.delay_time.min + 1) * 60
             /\ d = -59 => row.delay_time = [kind |-> "on_time", min |-> 0]
             /\ d = -60 => row.delay_time = [kind |-> "early", min |-> 1]

C7_DelayLabel ==
    IsClassified => \A row \in df_stop_schedule : C7_LabelOf(row)

\* a delay of -119 seconds is labelled "1 early" beside a visit without delay
C7_Witness ==
    /\ IsClassified
    /\ \E row \in df_stop_schedule :
          row.delay_sec = Some(-119) /\ row.delay_time = [kind |-> "early", min |-> 1]
    /\ \E row \in df_stop_schedule :
          isna(row.delay_sec) /\ row.delay_time.kind = "no_info"

\* (C7, further witnessing states) the two boundary delays
C7_Minus59Reached ==
    /\ IsClassified
    /\ \E row \in df_stop_schedule :
          row.delay_sec = Some(-59) /\ row.delay_time.kind = "on_time"

C7_Minus60Reached ==
    /\ IsClassified
    /\ \E row \in df_stop_schedule :
          row.delay_sec = Some(-60) /\ row.delay_time = [kind |-> "early", min |-> 1]

----------------------------------------------------------------------------
(* C8: a visit with realtime data predicted after now (scheduled departure   *)
(* + delay > now) reports N minutes remaining, N the ceiling of (predicted   *)
(* - now) / 60 and N >= 1, followed by the delay label in parentheses when   *)
(* the label is not "on time"; scheduled 28800, delay 200, now 28680 give    *)
(* predicted 29000, N = 6 and "arriving in 6 minutes (3 late)".              *)
C8_MessageOf(row) ==
    LET predicted == row.departure_sec + RowDelay(row)
        remaining == predicted - now_time_sec
        N == row.info.remaining_min
    IN  predicted > now_time_sec =>
            /\ row.judgetime_sec = predicted
            /\ N >= 1
            /\ N * 60 >= remaining
            /\ (N - 1) * 60 < remaining
            /\ IF row.delay_time.kind = "on_time"
               THEN row.info.msg = "arriving_on_time" /\ row.info.delay_time.kind = "-"
               ELSE row.info.msg = "arriving" /\ row.info.delay_time = row.delay_time
            /\ (row.departure_sec = 28800 /\ RowDelay(row) = 200 /\ now_time_sec = 28680)
               => /\ predicted = 29000
                  /\ row.info = [msg |-> "arriving", remaining_min |-> 6,
                                 delay_time |-> [kind |-> "late", min |-> 3]]

C8_MinutesRemaining ==
    IsClassified =>
        \A row \in df_stop_schedule : notna(row.delay_sec) => C8_MessageOf(row)

\* scheduled 28800, delay 200, now 28680: "arriving in 6 minutes (3 late)"
C8_Witness ==
    /\ IsClassified
    /\ now_time_sec = 28680
    /\ \E row \in df_stop_schedule :
          /\ row.departure_sec = 28800
          /\ row.delay_sec = Some(200)
          /\ row.info = [msg |-> "arriving", remaining_min |-> 6,
                         delay_time |-> [kind |-> "late", min |-> 3]]

----------------------------------------------------------------------------
(* C9: get_realtime_updates makes at most 3 attempts, makes none after a     *)
(* successful one and returns that attempt's records; after 3 failed         *)
(* attempts it returns an empty result and does not raise.  The request      *)
(* then finishes with a list in which every visit is without live data:      *)
(* NotYetDeparted, ServiceEnded or PassedNoData, location label "-".         *)
C9_AllFailed == \A i \in DOMAIN fetch_log : ~fetch_log[i].ok

C9_BoundedRetry ==
    /\ pc # "raised"
    /\ attempt <= 3
    /\ Len(fetch_log) = attempt
    /\ \A i \in DOMAIN fetch_log : fetch_log[i].ok => i = Len(fetch_log)
    /\ pc = "fetch" => C9_AllFailed
    /\ (pc \in {"merge", "classify", "done"} /\ attempt > 0) =>
          IF C9_AllFailed
          THEN attempt = 3 /\ df_rt_all = {}
          ELSE df_rt_all = fetch_log[Len(fetch_log)].records
    /\ (pc = "done" /\ attempt > 0 /\ C9_AllFailed) =>
          /\ Len(final_list) <= Cardinality(df_stop_schedule)
          /\ \A row \in df_stop_schedule :
                /\ isna(row.delay_sec)
                /\ row.now_stop.kind = "-"
                /\ LifecycleState(row.info) \in
                      {"NotYetDeparted", "ServiceEnded", "PassedNoData"}
          /\ \A i \in DOMAIN final_list :
                /\ final_list[i].now_stop.kind = "-"
                /\ LifecycleState(final_list[i].info) \in
                      {"NotYetDeparted", "ServiceEnded", "PassedNoData"}

\* three failed attempts, and the request still returns its visits
C9_Witness ==
    /\ pc = "done"
    /\ attempt = 3
    /\ C9_AllFailed
    /\ Len(final_list) > 0

\* (C9, second witnessing state) a success on the third attempt
C9_LateSuccessReached ==
    /\ pc = "done"
    /\ attempt = 3
    /\ fetch_log[3].ok
    /\ df_rt_all # {}

----------------------------------------------------------------------------
(* C10: whatever the interleaving of load_gtfs_data storing the tables in    *)
(* GTFS with the requests, a request works on the complete set of tables or  *)
(* on none (and then returns an empty list), never on a partly stored set,   *)
(* the set does not change while the request runs, and no step of a request  *)
(* changes an entry of GTFS.                                                 *)
C10_AllTables ==
    { "STOP_TIMES", "TRIPS", "STOPS", "CALENDAR", "CALENDAR_DATES", "PARENT_ID_MAP",
      "TRIP_BOUNDARIES", "ROUTE_STOP_MAP", "ROUTE_NAMES", "STOP_NAME_MAP" }

C10_CompleteOrNone ==
    pc # "idle" =>
        /\ pc # "raised"
        /\ DOMAIN GTFS = {} \/ DOMAIN GTFS = C10_AllTables
        /\ DOMAIN GTFS = {} => (pc = "done" /\ final_list = << >>)

\* a step of the request: it moves the request or makes a fetch attempt
C10_RequestStep == pc' # pc \/ attempt' # attempt

C10_SnapshotReads ==
    /\ []C10_CompleteOrNone
    /\ [][(pc # "idle" \/ C10_RequestStep) => GTFS' = GTFS]_vars

\* a request that has assigned the realtime columns on its own frame while
\* the complete set of tables is published and its stop times lack them
C10_Witness ==
    /\ main_pc = "serving"
    /\ pc = "classify"
    /\ df_rt_all = {}
    /\ df_stop_schedule # {}
    /\ \A row \in df_stop_schedule : "delay_sec" \in DOMAIN row
    /\ DOMAIN GTFS = C10_AllTables
    /\ \A st \in GTFS.STOP_TIMES : "delay_sec" \notin DOMAIN st

\* (C10, second witnessing state) a request served with no table published
C10_NoneReached ==
    /\ main_pc = "serving"
    /\ DOMAIN GTFS = {}
    /\ pc = "done"
    /\ final_list = << >>

----------------------------------------------------------------------------
(* C11: the now a request compares schedule times against comes from the    *)
(* wall clock's hour, minute and second and lies in 0..86399, whatever the   *)
(* timetable's over-24h times; so a classified stop-visit without a realtime *)
(* record whose scheduled departure is 86400 or more is NotYetDeparted at    *)
(* every clock time (never PassedNoData, never ServiceEnded), and one with a *)
(* realtime record whose predicted time is 86400 or more is never            *)
(* ArrivedOrPassed.                                                          *)
C11_WallClockNow ==
    /\ now_time_sec \in 0..86399
    /\ pc \notin {"idle", "raised"} /\ DOMAIN GTFS # {} =>
          now_time_sec = now_jst.hour * 3600 + now_jst.minute * 60 + now_jst.second
    /\ IsClassified =>
          \A row \in df_stop_schedule :
              /\ ~HasRealtime(row.trip_id) /\ row.departure_sec >= 86400 =>
                    LifecycleState(row.info) = "NotYetDeparted"
              /\ HasRealtime(row.trip_id)
                    /\ row.departure_sec + RowDelay(row) >= 86400 =>
                    LifecycleState(row.info) # "ArrivedOrPassed"

\* a visit timetabled at 24:10:00 without a realtime record, classified at
\* 00:10:01 on the wall clock: still NotYetDeparted
C11_Witness ==
    /\ IsClassified
    /\ now_time_sec = 601
    /\ \E row \in df_stop_schedule :
          /\ ~HasRealtime(row.trip_id)
          /\ row.departure_sec = 87000
          /\ row.departure_sec - 86400 < now_time_sec
          /\ LifecycleState(row.info) = "NotYetDeparted"

\* a visit predicted at exactly 86400, classified at 23:59:59: EnRoute
C11_PredictedOvernightReached ==
    /\ IsClassified
    /\ now_time_sec = 86399
    /\ \E row \in df_stop_schedule :
          /\ HasRealtime(row.trip_id)
          /\ row.departure_sec + RowDelay(row) = 86400
          /\ LifecycleState(row.info) = "EnRoute"

\* a visit predicted at 86399, one second short, classified at 23:59:59:
\* ArrivedOrPassed
C11_PredictedSameDayReached ==
    /\ IsClassified
    /\ now_time_sec = 86399
    /\ \E row \in df_stop_schedule :
          /\ HasRealtime(row.trip_id)
          /\ row.departure_sec + RowDelay(row) = 86399
          /\ LifecycleState(row.info) = "ArrivedOrPassed"

====
